---- MODULE Spec2Model ----
(***************************************************************************)
(* The MDB storage engine (class MDB of maestrodatabase_gui.py, with the   *)
(* select method of maestrodatabase_terminal.py): the registry of tables,  *)
(* the schemas, the transaction snapshots and the table files.  The class  *)
(* MDB of maestrodatabase_terminal.py, which the web API runs on, is the   *)
(* same engine except for its load_table, its _save and the return values  *)
(* of update and delete: the variable engine says which of the two runs.   *)
(*                                                                         *)
(* Python objects are modelled with a heap: a row of a table is a          *)
(* reference to a dict object, so that in-place updates, deepcopy and       *)
(* references handed to clients behave as in the source.                    *)
(***************************************************************************)
EXTENDS Integers, Sequences, FiniteSets, TLC

\* ------------------------------------------------------------------ bounds

\* The longest row sequence a table is allowed to grow to.
MaxRows == 2

\* ------------------------------------------------------------------ values

\* A Python value: int, float (n counts halves: 3 is 1.5), str, bool, None.
None == [kind |-> "null", n |-> 0, s |-> ""]
IntV(i) == [kind |-> "int", n |-> i, s |-> ""]
FloatV(halves) == [kind |-> "float", n |-> halves, s |-> ""]
StrV(x) == [kind |-> "str", n |-> 0, s |-> x]
BoolV(b) == [kind |-> "bool", n |-> IF b THEN 1 ELSE 0, s |-> ""]

\* The empty dict {} (also the empty schema and the empty conditions).
EmptyDict == [c \in {} |-> None]

\* isinstance(x, dtype) for dtype one of the type objects int, float, str, bool:
\* bool is a subclass of int.
isinstance(x, dtype) ==
    CASE dtype = "int" -> x.kind \in {"int", "bool"}
      [] dtype = "float" -> x.kind = "float"
      [] dtype = "str" -> x.kind = "str"
      [] dtype = "bool" -> x.kind = "bool"
      [] OTHER -> FALSE

\* Python's == on values: numbers compare by value across int, float and bool.
IsNum(x) == x.kind \in {"int", "float", "bool"}
Num(x) == IF x.kind = "float" THEN x.n ELSE 2 * x.n
PyEq(a, b) == IF IsNum(a) /\ IsNum(b) THEN Num(a) = Num(b) ELSE a = b

\* record.get(k)
get(record, k) == IF k \in DOMAIN record THEN record[k] ELSE None

\* all(record.get(k) == v for k, v in conditions.items())
matches(record, conditions) ==
    \A k \in DOMAIN conditions : PyEq(get(record, k), conditions[k])

\* ------------------------------------------------------------------ names

\* Table names a client may use, and the order dicts are walked in.
NameOrder == <<"users", "orders">>
Names == {NameOrder[i] : i \in 1..Len(NameOrder)}

\* Column names, in the order the schemas below declare them.
ColOrder == <<"id", "v">>

folder == "data"
extension == ".mdb"

\* os.path.join(self.folder, table_name + self.extension)
_path(table_name) == <<folder, table_name, extension>>

\* ------------------------------------------------------------------ state

VARIABLES
    tables,         \* self.tables: name -> list of references to row dicts
    schemas,        \* self.schemas: name -> (column -> type name or "None")
    _transactions,  \* self._transactions: name -> deep-copied list of rows
    files,          \* the data folder: path -> JSON document
    heap,           \* the dict objects: reference -> (column -> value)
    held,           \* references to row dicts that clients still hold
    last,           \* the last call: operation, table, outcome, return value
    hist,           \* per pending transaction: the rows at begin, what followed
    engine,         \* which class MDB runs: "gui" or "terminal"
    raw,            \* the values in self.tables and self._transactions that are no lists
    requests        \* per thread of the API server: the request it serves and how far it is

vars == <<tables, schemas, _transactions, files, heap, held, last, hist, engine, raw,
          requests>>

\* The rows of a list of references, as values.
Rows(h, refs) == [i \in 1..Len(refs) |-> h[refs[i]]]

\* The rows of live table t, as values.
TableRows(t) == Rows(heap, tables[t])

\* ------------------------------------------------------------------ heap

RECURSIVE Dedup(_, _)
\* s without its repeated elements, first occurrences kept in order.
Dedup(s, seen) ==
    IF s = <<>> THEN <<>>
    ELSE IF Head(s) \in seen THEN Dedup(Tail(s), seen)
    ELSE <<Head(s)>> \o Dedup(Tail(s), seen \cup {Head(s)})

RECURSIVE RootRefs(_, _, _)
\* Every reference the engine holds, walking the names in order.
RootRefs(names, tb, tx) ==
    IF names = <<>> THEN <<>>
    ELSE LET t == Head(names)
         IN (IF t \in DOMAIN tb THEN tb[t] ELSE <<>>)
            \o (IF t \in DOMAIN tx THEN tx[t] ELSE <<>>)
            \o RootRefs(Tail(names), tb, tx)

IndexOf(s, x) == CHOOSE i \in 1..Len(s) : s[i] = x

Renumber(order, refs) == [i \in 1..Len(refs) |-> IndexOf(order, refs[i])]

\* Python frees a dict no list refers to any more: the heap keeps the referenced
\* objects only, numbered in the order the engine's lists and the clients reach them.
Compact(h, tb, tx, hd) ==
    LET order == Dedup(RootRefs(NameOrder, tb, tx) \o hd, {})
    IN [heap |-> [i \in 1..Len(order) |-> h[order[i]]],
        tables |-> [t \in DOMAIN tb |-> Renumber(order, tb[t])],
        tx |-> [t \in DOMAIN tx |-> Renumber(order, tx[t])],
        held |-> Renumber(order, hd)]

RECURSIVE deepcopy_loop(_, _, _, _)
deepcopy_loop(h, refs, memo, out) ==
    IF refs = <<>> THEN [heap |-> h, refs |-> out]
    ELSE LET r == Head(refs)
         IN IF r \in DOMAIN memo
            THEN deepcopy_loop(h, Tail(refs), memo, Append(out, memo[r]))
            ELSE deepcopy_loop(Append(h, h[r]), Tail(refs),
                               (r :> Len(h) + 1) @@ memo, Append(out, Len(h) + 1))

\* A list of the same references: what list(rows) would give.
shallowcopy(h, refs) == [heap |-> h, refs |-> refs]

\* copy.deepcopy of a list of dicts: a new list of new dicts; a dict the list
\* holds twice is copied once (deepcopy's memo).
deepcopy(h, refs) == deepcopy_loop(h, refs, [r \in {} |-> 0], <<>>)

\* ------------------------------------------------------------------ JSON

JNull == [tok |-> "null", n |-> 0, s |-> ""]
JString(x) == [tok |-> "string", n |-> 0, s |-> x]

\* json.dump of a value: an int prints without a point, a float with one, a bool
\* as true or false, None as null.
dump_value(x) ==
    CASE x.kind = "int" -> [tok |-> "int", n |-> x.n, s |-> ""]
      [] x.kind = "float" -> [tok |-> "real", n |-> x.n, s |-> ""]
      [] x.kind = "str" -> JString(x.s)
      [] x.kind = "bool" -> [tok |-> IF x.n = 1 THEN "true" ELSE "false", n |-> 0, s |-> ""]
      [] OTHER -> JNull

\* json.load of a value.
load_value(j) ==
    CASE j.tok = "int" -> IntV(j.n)
      [] j.tok = "real" -> FloatV(j.n)
      [] j.tok = "string" -> StrV(j.s)
      [] j.tok = "true" -> BoolV(TRUE)
      [] j.tok = "false" -> BoolV(FALSE)
      [] OTHER -> None

dump_record(record) == [c \in DOMAIN record |-> dump_value(record[c])]
load_record(obj) == [c \in DOMAIN obj |-> load_value(obj[c])]
dump_rows(rows) == [i \in 1..Len(rows) |-> dump_record(rows[i])]
load_rows(arr) == [i \in 1..Len(arr) |-> load_record(arr[i])]

\* {k: v.__name__ if v else None for k, v in schema.items()}
dump_schema(schema) ==
    [k \in DOMAIN schema |-> IF schema[k] # "None" THEN JString(schema[k]) ELSE JNull]

\* The loop of load_table over schema_data.items().
load_schema(schema_data) ==
    [k \in DOMAIN schema_data |->
        IF schema_data[k] = JString("int") THEN "int"
        ELSE IF schema_data[k] = JString("float") THEN "float"
        ELSE IF schema_data[k] = JString("str") THEN "str"
        ELSE "None"]

\* The loop of load_table over data[0].items(): the schema of a bare row list.
infer_schema(first) ==
    [k \in DOMAIN first |->
        IF isinstance(first[k], "int") THEN "int"
        ELSE IF isinstance(first[k], "float") THEN "float"
        ELSE IF isinstance(first[k], "str") THEN "str"
        ELSE "None"]

\* The three top-level shapes of a table file (the scalar is a number), and the
\* file open(path, "w") leaves when nothing is written to it.
ObjectDoc(schema_data, arr) == [shape |-> "object", schema |-> schema_data, rows |-> arr]
ListDoc(arr) == [shape |-> "list", schema |-> EmptyDict, rows |-> arr]
ScalarDoc == [shape |-> "scalar", schema |-> EmptyDict, rows |-> <<>>]
EmptyFile == [shape |-> "empty", schema |-> EmptyDict, rows |-> <<>>]

\* No value of self.tables or self._transactions is anything but a list.
NoRaw == [tables |-> [t \in {} |-> ScalarDoc], tx |-> [t \in {} |-> ScalarDoc]]

\* json.dump(self.tables[table_name]): a list of rows, or the value load_table
\* of the terminal engine stored as it was read.
dump_table(h, tb, t) ==
    IF t \in DOMAIN raw.tables THEN raw.tables[t] ELSE ListDoc(dump_rows(Rows(h, tb[t])))

\* self.schemas.get(table_name, {})
schema_of(sch, t) == IF t \in DOMAIN sch THEN sch[t] ELSE EmptyDict

\* _save: the folder after the file of live table t is rewritten. The gui
\* engine writes the schema and the rows, the terminal engine the table value.
_save(fs, h, tb, sch, t) ==
    IF engine = "gui"
    THEN (_path(t) :> ObjectDoc(dump_schema(schema_of(sch, t)), dump_rows(Rows(h, tb[t])))) @@ fs
    ELSE (_path(t) :> dump_table(h, tb, t)) @@ fs

\* ------------------------------------------------------------------ validation

RECURSIVE validate_columns(_, _, _)
\* The loop of _validate_record, in the schema's column order: the first column
\* that is missing or of the wrong type raises.
validate_columns(cols, schema, record) ==
    IF cols = <<>> THEN "OK"
    ELSE LET col == Head(cols)
         IN IF col \notin DOMAIN schema
            THEN validate_columns(Tail(cols), schema, record)
            ELSE IF col \notin DOMAIN record THEN "MissingColumn"
            ELSE IF /\ schema[col] # "None"
                    /\ record[col] # None
                    /\ ~isinstance(record[col], schema[col])
                 THEN "KindMismatch"
            ELSE validate_columns(Tail(cols), schema, record)

\* A validation that skips the presence test.
validate_types_only(sch, t, record) ==
    IF t \notin DOMAIN sch THEN "OK"
    ELSE validate_columns(ColOrder, sch[t], record @@ [c \in DOMAIN sch[t] |-> None])

_validate_record(sch, t, record) ==
    IF t \notin DOMAIN sch THEN "OK"
    ELSE validate_columns(ColOrder, sch[t], record)

\* A duplicate test that looks only at rows holding the key column.
duplicate_present(rows, record, key_column) ==
    \E i \in 1..Len(rows) :
        key_column \in DOMAIN rows[i] /\ PyEq(rows[i][key_column], get(record, key_column))

\* The duplicate test of insert.
duplicate(rows, record, key_column) ==
    \E i \in 1..Len(rows) : PyEq(get(rows[i], key_column), get(record, key_column))

\* ------------------------------------------------------------------ calls

\* What a pending transaction has seen: whether its begin replaced a snapshot
\* that mutations had followed (re), and the mutations since its begin (m: "none",
\* "update" once an update changed a row in place, "other" for inserts and deletes).
NoTx == [active |-> FALSE, re |-> FALSE, m |-> "none"]

Call(op, t, err, count, result, tx) ==
    [op |-> op, t |-> t, err |-> err, count |-> count, result |-> result, tx |-> tx]

\* A call that returned None.
Returned(op, t) == Call(op, t, "OK", -1, <<>>, NoTx)

\* A call that raised before it changed anything.
Raised(op, t, err) ==
    /\ last' = Call(op, t, err, -1, <<>>, NoTx)
    /\ UNCHANGED <<tables, schemas, _transactions, files, heap, held, hist, engine, requests, raw>>

\* The objects and lists after a call, unreferenced dicts freed.
Engine(N) ==
    /\ heap' = N.heap
    /\ tables' = N.tables
    /\ _transactions' = N.tx
    /\ held' = N.held

\* A mutation of table t is noted by its pending transaction, if any.
Touch(t, kind) ==
    IF t \in DOMAIN hist
    THEN [hist EXCEPT ![t].m = IF kind = "update" \/ @ = "update" THEN "update" ELSE "other"]
    ELSE hist

Without(f, t) == [x \in DOMAIN f \ {t} |-> f[x]]

\* What iterating over, or appending to, a table value that is no list raises:
\* a number is not iterable, the keys of a dict are strings without get.
raw_error(t) == IF raw.tables[t].shape = "scalar" THEN "TypeError" ELSE "AttributeError"

\* ------------------------------------------------------------------ table operations

\* A create that does not look whether the table exists.
create_over(table_name, schema) ==
    LET tb == (table_name :> <<>>) @@ tables
        sch == IF schema # EmptyDict THEN (table_name :> schema) @@ schemas ELSE schemas
        N == Compact(heap, tb, _transactions, held)
    IN /\ Engine(N)
       /\ schemas' = sch
       /\ files' = _save(files, N.heap, N.tables, sch, table_name)
       /\ last' = Returned("create_table", table_name)
       /\ UNCHANGED <<hist, engine, requests, raw>>

\* A create that leaves a file it finds as it is.
create_keep(table_name, schema) ==
    IF table_name \in DOMAIN tables
    THEN Raised("create_table", table_name, "AlreadyExists")
    ELSE LET tb == (table_name :> <<>>) @@ tables
             sch == IF schema # EmptyDict THEN (table_name :> schema) @@ schemas ELSE schemas
         IN /\ tables' = tb
            /\ schemas' = sch
            /\ files' = IF _path(table_name) \in DOMAIN files THEN files
                         ELSE _save(files, heap, tb, sch, table_name)
            /\ last' = Returned("create_table", table_name)
            /\ UNCHANGED <<_transactions, heap, held, hist, engine, requests, raw>>

\* create_table(table_name, schema): schema = {} stands for the falsy schemas
\* (None and {}), which the code does not bind.
create_table(table_name, schema) ==
    IF table_name \in DOMAIN tables
    THEN Raised("create_table", table_name, "AlreadyExists")
    ELSE LET tb == (table_name :> <<>>) @@ tables
             sch == IF schema # EmptyDict THEN (table_name :> schema) @@ schemas ELSE schemas
         IN /\ tables' = tb
            /\ schemas' = sch
            /\ files' = _save(files, heap, tb, sch, table_name)
            /\ last' = Returned("create_table", table_name)
            /\ UNCHANGED <<_transactions, heap, held, hist, engine, requests, raw>>

\* load_table(table_name). The gui engine reads a row list (and infers a
\* schema) or a schema/rows object; the terminal engine stores what json.load
\* returns, whatever it is, and leaves the schemas alone.
load_table(table_name) ==
    IF _path(table_name) \notin DOMAIN files
    THEN Raised("load_table", table_name, "NotFound")
    ELSE IF files[_path(table_name)].shape = "empty"
    THEN Raised("load_table", table_name, "JSONDecodeError")
    ELSE LET data == files[_path(table_name)]
             rows == load_rows(data.rows)
             h == heap \o rows
             refs == [i \in 1..Len(rows) |-> Len(heap) + i]
             N == Compact(h, (table_name :> refs) @@ tables, _transactions, held)
             listed == [raw EXCEPT !.tables = Without(@, table_name)]
         IN IF engine = "terminal"
            THEN IF data.shape = "list"
                 THEN /\ Engine(N)
                      /\ raw' = listed
                      /\ last' = Returned("load_table", table_name)
                      /\ UNCHANGED <<schemas, files, hist, engine, requests>>
                 ELSE /\ Engine(Compact(heap, (table_name :> <<>>) @@ tables,
                                        _transactions, held))
                      /\ raw' = [raw EXCEPT !.tables = (table_name :> data) @@ @]
                      /\ last' = Returned("load_table", table_name)
                      /\ UNCHANGED <<schemas, files, hist, engine, requests>>
            ELSE IF data.shape = "list"
            THEN /\ Engine(N)
                 /\ schemas' = (table_name :>
                                  IF rows # <<>> THEN infer_schema(rows[1]) ELSE EmptyDict)
                               @@ schemas
                 /\ raw' = listed
                 /\ last' = Returned("load_table", table_name)
                 /\ UNCHANGED <<files, hist, engine, requests>>
            ELSE IF data.shape = "object"
            THEN /\ Engine(N)
                 /\ schemas' = (table_name :> load_schema(data.schema)) @@ schemas
                 /\ raw' = listed
                 /\ last' = Returned("load_table", table_name)
                 /\ UNCHANGED <<files, hist, engine, requests>>
            ELSE Raised("load_table", table_name, "UnsupportedFormat")

\* drop_table(table_name)
drop_table(table_name) ==
    IF table_name \notin DOMAIN tables
    THEN Raised("drop_table", table_name, "NotFound")
    ELSE /\ Engine(Compact(heap, Without(tables, table_name), _transactions, held))
         /\ schemas' = Without(schemas, table_name)
         /\ files' = Without(files, _path(table_name))
         /\ raw' = [raw EXCEPT !.tables = Without(@, table_name)]
         /\ last' = Returned("drop_table", table_name)
         /\ UNCHANGED <<hist, engine, requests>>

\* ------------------------------------------------------------------ CRUD

\* What insert raises before it appends, "OK" when nothing: the table is
\* missing, the record fails validation, the table value is no list, the key is
\* taken (key_column = "" stands for None).
insert_error(table_name, record, key_column) ==
    IF table_name \notin DOMAIN tables THEN "NotFound"
    ELSE IF _validate_record(schemas, table_name, record) # "OK"
    THEN _validate_record(schemas, table_name, record)
    ELSE IF table_name \in DOMAIN raw.tables
    THEN IF key_column # "" THEN raw_error(table_name) ELSE "AttributeError"
    ELSE IF key_column # "" /\ duplicate(TableRows(table_name), record, key_column)
    THEN "DuplicateKey"
    ELSE "OK"

\* insert(table_name, record, key_column). The record is a dict the client has
\* just built and does not keep.
insert(table_name, record, key_column) ==
    IF insert_error(table_name, record, key_column) # "OK"
    THEN Raised("insert", table_name, insert_error(table_name, record, key_column))
    ELSE /\ Len(tables[table_name]) < MaxRows
         /\ LET h == Append(heap, record)
                N == Compact(h, [tables EXCEPT ![table_name] = Append(@, Len(h))],
                             _transactions, held)
            IN /\ Engine(N)
               /\ files' = _save(files, N.heap, N.tables, schemas, table_name)
         /\ hist' = Touch(table_name, "other")
         /\ last' = Returned("insert", table_name)
         /\ UNCHANGED <<schemas, engine, requests, raw>>

\* A selection that ignores the conditions.
select_all(h, refs, conditions) == refs

\* select(table_name, **conditions): the matching dicts themselves, in a new list.
select_refs(h, refs, conditions) ==
    SelectSeq(refs, LAMBDA r : matches(h[r], conditions))

select(table_name, conditions) ==
    IF table_name \notin DOMAIN tables
    THEN Raised("select", table_name, "NotFound")
    ELSE IF table_name \in DOMAIN raw.tables
    THEN Raised("select", table_name, raw_error(table_name))
    ELSE /\ last' = Call("select", table_name, "OK", -1,
                         Rows(heap, select_refs(heap, tables[table_name], conditions)), NoTx)
         /\ UNCHANGED <<tables, schemas, _transactions, files, heap, held, hist, engine, requests, raw>>

RECURSIVE update_loop(_, _, _, _, _)
\* The loop of update: each matching dict is changed in place, in list order.
update_loop(h, refs, conditions, updates, updated_count) ==
    IF refs = <<>> THEN [heap |-> h, count |-> updated_count]
    ELSE LET r == Head(refs)
         IN IF matches(h[r], conditions)
            THEN update_loop([h EXCEPT ![r] = updates @@ h[r]], Tail(refs),
                             conditions, updates, updated_count + 1)
            ELSE update_loop(h, Tail(refs), conditions, updates, updated_count)

\* What update and delete return: updated_count or deleted_count in the gui
\* engine; the terminal engine prints the count and returns None (-1 here).
returned_count(count) == IF engine = "gui" THEN count ELSE -1

\* update(table_name, conditions, updates)
update(table_name, conditions, updates) ==
    IF table_name \notin DOMAIN tables
    THEN Raised("update", table_name, "NotFound")
    ELSE IF table_name \in DOMAIN raw.tables
    THEN Raised("update", table_name, raw_error(table_name))
    ELSE LET r == update_loop(heap, tables[table_name], conditions, updates, 0)
         IN /\ heap' = r.heap
            /\ files' = _save(files, r.heap, tables, schemas, table_name)
            /\ hist' = IF r.heap # heap THEN Touch(table_name, "update") ELSE hist
            /\ last' = Call("update", table_name, "OK", returned_count(r.count), <<>>, NoTx)
            /\ UNCHANGED <<tables, schemas, _transactions, held, engine, requests, raw>>

\* delete(table_name, **conditions)
delete(table_name, conditions) ==
    IF table_name \notin DOMAIN tables
    THEN Raised("delete", table_name, "NotFound")
    ELSE IF table_name \in DOMAIN raw.tables
    THEN Raised("delete", table_name, raw_error(table_name))
    ELSE LET kept == SelectSeq(tables[table_name],
                               LAMBDA r : ~matches(heap[r], conditions))
             deleted_count == Len(tables[table_name]) - Len(kept)
             N == Compact(heap, [tables EXCEPT ![table_name] = kept], _transactions, held)
         IN /\ Engine(N)
            /\ files' = _save(files, N.heap, N.tables, schemas, table_name)
            /\ hist' = IF deleted_count > 0 THEN Touch(table_name, "other") ELSE hist
            /\ last' = Call("delete", table_name, "OK", returned_count(deleted_count),
                             <<>>, NoTx)
            /\ UNCHANGED <<schemas, engine, requests, raw>>

\* ------------------------------------------------------------------ transactions

\* deepcopy of a table value that is no list is that value again.
copied(t) ==
    [raw EXCEPT !.tx = IF t \in DOMAIN raw.tables
                       THEN (t :> raw.tables[t]) @@ @
                       ELSE Without(@, t)]

\* A begin that keeps the snapshot of a transaction already pending.
begin_keep(table_name) ==
    IF table_name \notin DOMAIN tables
    THEN Raised("begin_transaction", table_name, "NotFound")
    ELSE LET copy == deepcopy(heap, tables[table_name])
             N == Compact(copy.heap, tables, _transactions @@ (table_name :> copy.refs), held)
         IN /\ Engine(N)
            /\ hist' = (table_name :>
                          [rows |-> TableRows(table_name),
                           re |-> (table_name \in DOMAIN hist /\ hist[table_name].m # "none"),
                           m |-> "none"]) @@ hist
            /\ raw' = copied(table_name)
            /\ last' = Returned("begin_transaction", table_name)
            /\ UNCHANGED <<schemas, files, engine, requests>>

\* begin_transaction(table_name)
begin_transaction(table_name) ==
    IF table_name \notin DOMAIN tables
    THEN Raised("begin_transaction", table_name, "NotFound")
    ELSE LET copy == deepcopy(heap, tables[table_name])
             N == Compact(copy.heap, tables, (table_name :> copy.refs) @@ _transactions, held)
         IN /\ Engine(N)
            /\ hist' = (table_name :>
                          [rows |-> TableRows(table_name),
                           re |-> (table_name \in DOMAIN hist /\ hist[table_name].m # "none"),
                           m |-> "none"]) @@ hist
            /\ raw' = copied(table_name)
            /\ last' = Returned("begin_transaction", table_name)
            /\ UNCHANGED <<schemas, files, engine, requests>>

\* What rollback and commit report of the transaction they end.
Ended(t) == [active |-> TRUE, re |-> hist[t].re, m |-> hist[t].m]

\* self.tables[table_name] = self._transactions.pop(table_name), for the values
\* that are no lists.
restored(t) ==
    [tables |-> IF t \in DOMAIN raw.tx
                THEN (t :> raw.tx[t]) @@ raw.tables
                ELSE Without(raw.tables, t),
     tx |-> Without(raw.tx, t)]

\* A rollback that raises when no transaction is pending.
rollback_strict(table_name) ==
    IF table_name \in DOMAIN _transactions
    THEN /\ Engine(Compact(heap, (table_name :> _transactions[table_name]) @@ tables,
                           Without(_transactions, table_name), held))
         /\ raw' = restored(table_name)
         /\ hist' = Without(hist, table_name)
         /\ last' = Call("rollback", table_name, "OK", -1, <<>>, Ended(table_name))
         /\ UNCHANGED <<schemas, files, engine, requests>>
    ELSE Raised("rollback", table_name, "NoTransaction")

\* rollback(table_name)
rollback(table_name) ==
    IF table_name \in DOMAIN _transactions
    THEN /\ Engine(Compact(heap, (table_name :> _transactions[table_name]) @@ tables,
                           Without(_transactions, table_name), held))
         /\ raw' = restored(table_name)
         /\ hist' = Without(hist, table_name)
         /\ last' = Call("rollback", table_name, "OK", -1, <<>>, Ended(table_name))
         /\ UNCHANGED <<schemas, files, engine, requests>>
    ELSE /\ last' = Returned("rollback", table_name)
         /\ UNCHANGED <<tables, schemas, _transactions, files, heap, held, hist, engine, requests, raw>>

\* A commit that writes the file and keeps the snapshot.
commit_keep(table_name) ==
    IF table_name \in DOMAIN _transactions /\ table_name \in DOMAIN tables
    THEN /\ files' = _save(files, heap, tables, schemas, table_name)
         /\ last' = Call("commit", table_name, "OK", -1, <<>>, Ended(table_name))
         /\ UNCHANGED <<tables, schemas, _transactions, heap, held, hist, engine, requests, raw>>
    ELSE /\ last' = Returned("commit", table_name)
         /\ UNCHANGED <<tables, schemas, _transactions, files, heap, held, hist, engine, requests, raw>>

\* commit(table_name): when the table is not live _save raises KeyError after
\* the snapshot was popped; the gui engine raises before it opens the file, the
\* terminal engine after open(path, "w") has emptied it.
commit(table_name) ==
    IF table_name \in DOMAIN _transactions
    THEN /\ Engine(Compact(heap, tables, Without(_transactions, table_name), held))
         /\ raw' = [raw EXCEPT !.tx = Without(@, table_name)]
         /\ hist' = Without(hist, table_name)
         /\ IF table_name \in DOMAIN tables
            THEN /\ files' = _save(files, heap, tables, schemas, table_name)
                 /\ last' = Call("commit", table_name, "OK", -1, <<>>, Ended(table_name))
            ELSE /\ files' = IF engine = "gui" THEN files
                             ELSE (_path(table_name) :> EmptyFile) @@ files
                 /\ last' = Call("commit", table_name, "KeyError", -1, <<>>, Ended(table_name))
         /\ UNCHANGED <<schemas, engine, requests>>
    ELSE /\ last' = Returned("commit", table_name)
         /\ UNCHANGED <<tables, schemas, _transactions, files, heap, held, hist, engine, requests, raw>>

\* ------------------------------------------------------------------ backup and export

\* datetime.now().strftime('%Y%m%d%H%M%S') at the moment of a backup.
Timestamps == { "20240101000000" }

\* self._path(table_name) + ".backup.<timestamp>"
backup_path(table_name, now) == <<folder, table_name, extension \o ".backup." \o now>>

\* backup_table(table_name): the gui engine dumps the schema and the rows, the
\* terminal engine the table value, into a file beside the table file.
backup_table(table_name, now) ==
    IF table_name \notin DOMAIN tables
    THEN Raised("backup_table", table_name, "NotFound")
    ELSE /\ files' = (backup_path(table_name, now) :>
                        IF engine = "gui"
                        THEN ObjectDoc(dump_schema(schema_of(schemas, table_name)),
                                       dump_rows(TableRows(table_name)))
                        ELSE dump_table(heap, tables, table_name)) @@ files
         /\ last' = Returned("backup_table", table_name)
         /\ UNCHANGED <<tables, schemas, _transactions, heap, held, hist, engine, requests, raw>>

\* A field of a CSV line.
Text(x) == [tok |-> "text", n |-> 0, s |-> x]

\* What csv.writer writes for a value: str(value), nothing for None.
csv_value(x) ==
    CASE x.kind = "int" -> [tok |-> "int", n |-> x.n, s |-> ""]
      [] x.kind = "float" -> [tok |-> "real", n |-> x.n, s |-> ""]
      [] x.kind = "str" -> Text(x.s)
      [] x.kind = "bool" -> Text(IF x.n = 1 THEN "True" ELSE "False")
      [] OTHER -> Text("")

\* DictWriter.writeheader: the field names as a line.
writeheader(fieldnames) == [c \in fieldnames |-> Text(c)]

\* DictWriter._dict_to_list: the fields of a row, restval "" for a missing one.
_dict_to_list(fieldnames, rowdict) ==
    [c \in fieldnames |-> IF c \in DOMAIN rowdict THEN csv_value(rowdict[c]) ELSE Text("")]

RECURSIVE writerows(_, _)
\* DictWriter.writerows (extrasaction='raise'): the lines written, and whether a
\* row with a key outside the field names stopped the writing with ValueError.
writerows(fieldnames, rowdicts) ==
    IF rowdicts = <<>> THEN [lines |-> <<>>, err |-> "OK"]
    ELSE IF DOMAIN Head(rowdicts) \ fieldnames # {}
    THEN [lines |-> <<>>, err |-> "ValueError"]
    ELSE LET rest == writerows(fieldnames, Tail(rowdicts))
         IN [lines |-> <<_dict_to_list(fieldnames, Head(rowdicts))>> \o rest.lines,
             err |-> rest.err]

\* A CSV file: its lines, the header first.
CsvDoc(lines) == [shape |-> "csv", schema |-> EmptyDict, rows |-> lines]

\* export_csv(table_name, file_path): nothing for a table without rows; else
\* the header of the first row's keys and the rows, up to the first row that
\* has a key the first row lacks.
export_csv(table_name, file_path) ==
    IF table_name \notin DOMAIN tables
    THEN Raised("export_csv", table_name, "NotFound")
    ELSE IF table_name \in DOMAIN raw.tables
    THEN Raised("export_csv", table_name,
                IF raw.tables[table_name].shape = "scalar" THEN "TypeError" ELSE "KeyError")
    ELSE IF tables[table_name] = <<>>
    THEN /\ last' = Returned("export_csv", table_name)
         /\ UNCHANGED <<tables, schemas, _transactions, files, heap, held, hist, engine, requests, raw>>
    ELSE LET fieldnames == DOMAIN heap[tables[table_name][1]]
             written == writerows(fieldnames, TableRows(table_name))
         IN /\ files' = (file_path :> CsvDoc(<<writeheader(fieldnames)>> \o written.lines))
                           @@ files
            /\ last' = Call("export_csv", table_name, written.err, -1, <<>>, NoTx)
            /\ UNCHANGED <<tables, schemas, _transactions, heap, held, hist, engine, requests, raw>>

\* ------------------------------------------------------------------ requests

\* The threads of the API server (Flask serves each request in a thread of its
\* own; all of them call the one engine object db, which has no lock).
Threads == {1, 2}

\* A thread that has received no request yet. pc is the statement of the engine
\* the thread executes next; kept is the list the comprehension of delete has
\* built and not yet stored; base and first say which rows the table had when
\* the request arrived and whether no other request had arrived before.
NoRequest ==
    [pc |-> "new", op |-> "", t |-> "", record |-> EmptyDict, conditions |-> EmptyDict,
     kept |-> <<>>, base |-> <<>>, first |-> FALSE]

NoRequests == [th \in Threads |-> NoRequest]

\* ------------------------------------------------------------------ clients

\* The table files found in the data folder at start: none, or a bare row list
\* written by an earlier version.
LegacyRows == << [id |-> IntV(1), v |-> FloatV(3)] >>
InitFiles ==
    { [p \in {} |-> ScalarDoc],
      (_path("users") :> ListDoc(dump_rows(LegacyRows))) }

\* MDB.__init__
Init ==
    /\ tables = [t \in {} |-> <<>>]
    /\ schemas = [t \in {} |-> EmptyDict]
    /\ _transactions = [t \in {} |-> <<>>]
    /\ files \in InitFiles
    /\ heap = <<>>
    /\ held = <<>>
    /\ hist = [t \in {} |-> [rows |-> <<>>, re |-> FALSE, m |-> "none"]]
    /\ last = Returned("__init__", "")
    /\ engine = "gui"
    /\ raw = NoRaw
    /\ requests = NoRequests

\* What the client of Spec passes: no schema or one, a record that fits it and
\* one that lacks a column, with or without a key column.
SpecSchemas == { EmptyDict, [id |-> "int", v |-> "float"] }
Records == { [id |-> IntV(1), v |-> FloatV(3)], [id |-> IntV(2)] }
SpecKeyColumns == {"", "id"}
Conditions == { EmptyDict, [id |-> IntV(2)] }
Updates == { [v |-> FloatV(3)] }

\* One client working on one table, its transactions included.
Next ==
    \E t \in {"users"} :
        \/ \E schema \in SpecSchemas : create_table(t, schema)
        \/ load_table(t)
        \/ drop_table(t)
        \/ \E record \in Records, key_column \in SpecKeyColumns :
              insert(t, record, key_column)
        \/ \E conditions \in Conditions : select(t, conditions)
        \/ \E conditions \in Conditions, updates \in Updates : update(t, conditions, updates)
        \/ \E conditions \in Conditions : delete(t, conditions)
        \/ begin_transaction(t)
        \/ rollback(t)
        \/ commit(t)

Spec == Init /\ [][Next]_vars

\* What the client of SpecSchema passes: a schema, records that fit it and
\* records that do not, a key column.
Schemas == { [id |-> "int", v |-> "bool"] }
SchemaRecords ==
    { [id |-> IntV(1), v |-> BoolV(TRUE)],
      [id |-> BoolV(TRUE), v |-> BoolV(FALSE)],
      [v |-> IntV(1)] }
KeyColumns == {"", "id", "v"}

\* One client working on one table with a schema.
NextSchema ==
    \E t \in {"users"} :
        \/ \E schema \in Schemas : create_table(t, schema)
        \/ load_table(t)
        \/ drop_table(t)
        \/ \E record \in SchemaRecords, key_column \in KeyColumns :
              insert(t, record, key_column)
        \/ update(t, [id |-> IntV(1)], [v |-> StrV("x")])
        \/ delete(t, [id |-> IntV(1)])
        \/ begin_transaction(t)
        \/ rollback(t)
        \/ commit(t)

SpecSchema == Init /\ [][NextSchema]_vars

\* What the client of SpecCrud passes: a table created with a schema once, then
\* only inserts of a record that fits it, updates, deletes and transactions.
CrudRecords == { [id |-> IntV(1), v |-> BoolV(TRUE)], [id |-> IntV(2), v |-> None] }

NextCrud ==
    \E t \in {"users"} :
        \/ \E schema \in Schemas : create_table(t, schema)
        \/ \E record \in CrudRecords : insert(t, record, "")
        \/ update(t, [id |-> IntV(1)], [v |-> StrV("x")])
        \/ delete(t, [id |-> IntV(2)])
        \/ begin_transaction(t)
        \/ rollback(t)
        \/ commit(t)

SpecCrud == Init /\ [][NextCrud]_vars

\* The table files SpecEngines starts with: none, a bare row list whose first
\* row holds a Boolean and a null, or a file that holds a number.
FirstRowKinds == << [id |-> BoolV(TRUE), v |-> None] >>
EngineFiles ==
    { [p \in {} |-> ScalarDoc],
      (_path("users") :> ListDoc(dump_rows(FirstRowKinds))),
      (_path("users") :> ScalarDoc) }

\* MDB.__init__ of either class.
InitEngines ==
    /\ tables = [t \in {} |-> <<>>]
    /\ schemas = [t \in {} |-> EmptyDict]
    /\ _transactions = [t \in {} |-> <<>>]
    /\ files \in EngineFiles
    /\ heap = <<>>
    /\ held = <<>>
    /\ hist = [t \in {} |-> [rows |-> <<>>, re |-> FALSE, m |-> "none"]]
    /\ last = Returned("__init__", "")
    /\ engine \in {"gui", "terminal"}
    /\ raw = NoRaw
    /\ requests = NoRequests

\* What the client of SpecEngines passes.
EngineSchemas == { [id |-> "int", v |-> "str"] }
EngineRecords == { [id |-> IntV(1), v |-> None] }
EngineConditions == { [id |-> IntV(1)] }
EngineUpdates == { [v |-> StrV("x")] }

\* One client working on one table, on either engine.
NextEngines ==
    \E t \in {"users"} :
        \/ \E schema \in EngineSchemas : create_table(t, schema)
        \/ load_table(t)
        \/ drop_table(t)
        \/ \E record \in EngineRecords : insert(t, record, "id")
        \/ \E conditions \in EngineConditions : select(t, conditions)
        \/ \E conditions \in EngineConditions, updates \in EngineUpdates :
              update(t, conditions, updates)
        \/ \E conditions \in EngineConditions : delete(t, conditions)
        \/ begin_transaction(t)
        \/ rollback(t)
        \/ commit(t)

SpecEngines == InitEngines /\ [][NextEngines]_vars

\* rows = db.select(table_name, **conditions), by a client that keeps rows: the
\* list is new, the dicts in it are the dicts of the table.
select_kept(table_name, conditions) ==
    IF table_name \notin DOMAIN tables
    THEN Raised("select", table_name, "NotFound")
    ELSE IF table_name \in DOMAIN raw.tables
    THEN Raised("select", table_name, raw_error(table_name))
    ELSE LET results == select_refs(heap, tables[table_name], conditions)
         IN /\ Engine(Compact(heap, tables, _transactions, results))
            /\ last' = Call("select", table_name, "OK", -1, Rows(heap, results), NoTx)
            /\ UNCHANGED <<schemas, files, hist, engine, requests, raw>>

\* db.insert(table_name, record, key_column), by a client that keeps record: the
\* table appends the dict it was given.
insert_kept(table_name, record, key_column) ==
    IF insert_error(table_name, record, key_column) # "OK"
    THEN Raised("insert", table_name, insert_error(table_name, record, key_column))
    ELSE /\ Len(tables[table_name]) < MaxRows
         /\ LET h == Append(heap, record)
                N == Compact(h, [tables EXCEPT ![table_name] = Append(@, Len(h))],
                             _transactions, <<Len(h)>>)
            IN /\ Engine(N)
               /\ files' = _save(files, N.heap, N.tables, schemas, table_name)
         /\ hist' = Touch(table_name, "other")
         /\ last' = Returned("insert", table_name)
         /\ UNCHANGED <<schemas, engine, requests, raw>>

\* held[i][col] = value, by the client, on a dict it kept.
client_set(i, col, value) ==
    /\ i \in 1..Len(held)
    /\ heap' = [heap EXCEPT ![held[i]] = (col :> value) @@ @]
    /\ last' = Returned("client_set", "")
    /\ UNCHANGED <<tables, schemas, _transactions, files, held, hist, engine, requests, raw>>

\* What the client of SpecClient passes and writes.
ClientRecords == { [id |-> IntV(1)], [id |-> IntV(2)] }
ClientConditions == { EmptyDict, [id |-> IntV(2)] }
ClientValues == { StrV("x") }

\* One client that keeps the records it gets and gives, and changes them.
NextClient ==
    \/ \E t \in {"users"} :
          \/ create_table(t, EmptyDict)
          \/ \E record \in ClientRecords : insert_kept(t, record, "id")
          \/ \E conditions \in ClientConditions : select_kept(t, conditions)
          \/ \E conditions \in ClientConditions : delete(t, conditions)
          \/ begin_transaction(t)
          \/ rollback(t)
    \/ \E i \in 1..MaxRows, value \in ClientValues : client_set(i, "v", value)

SpecClient == InitEngines /\ [][NextClient]_vars

\* ------------------------------------------------------------------ API server

\* db = MDB() of maestrodatabase_api.py: one terminal engine for every request.
InitApi ==
    /\ tables = [t \in {} |-> <<>>]
    /\ schemas = [t \in {} |-> EmptyDict]
    /\ _transactions = [t \in {} |-> <<>>]
    /\ files = [p \in {} |-> EmptyFile]
    /\ heap = <<>>
    /\ held = <<>>
    /\ hist = [t \in {} |-> [rows |-> <<>>, re |-> FALSE, m |-> "none"]]
    /\ last = Returned("__init__", "")
    /\ engine = "terminal"
    /\ raw = NoRaw
    /\ requests = NoRequests

\* No thread has received a request yet.
Quiet == \A th \in Threads : requests[th].pc = "new"

\* The request a thread has just received.
Received(op, table_name, record, conditions, pc, kept) ==
    [pc |-> pc, op |-> op, t |-> table_name, record |-> record,
     conditions |-> conditions, kept |-> kept,
     base |-> IF table_name \in DOMAIN tables /\ table_name \notin DOMAIN raw.tables
              THEN TableRows(table_name) ELSE <<>>,
     first |-> Quiet]

\* Compact, the lists the threads have built and not yet stored counting as
\* references like the lists of the engine.
CompactKept(h, tb, tx, hd, rq) ==
    LET N == Compact(h, tb, tx, hd \o rq[1].kept \o rq[2].kept)
        a == Len(hd)
        b == a + Len(rq[1].kept)
    IN [heap |-> N.heap, tables |-> N.tables, tx |-> N.tx,
        held |-> SubSeq(N.held, 1, a),
        requests |-> [rq EXCEPT ![1].kept = SubSeq(N.held, a + 1, b),
                                ![2].kept = SubSeq(N.held, b + 1, b + Len(rq[2].kept))]]

\* POST /insert/<table_name>, up to the append: db.insert(table_name, record)
\* checks the table and the record (the route passes no key_column).
insert_check(th, table_name, record) ==
    /\ requests[th].pc = "new"
    /\ LET err == insert_error(table_name, record, "")
       IN IF err # "OK"
          THEN /\ requests' = [requests EXCEPT ![th] =
                                  Received("insert", table_name, record, EmptyDict, "done", <<>>)]
               /\ last' = Call("insert", table_name, err, -1, <<>>, NoTx)
          ELSE /\ Len(tables[table_name])
                    + Cardinality({o \in Threads : requests[o].pc = "append"}) < MaxRows
               /\ requests' = [requests EXCEPT ![th] =
                                  Received("insert", table_name, record, EmptyDict, "append", <<>>)]
               /\ UNCHANGED last
    /\ UNCHANGED <<tables, schemas, _transactions, files, heap, held, hist, engine, raw>>

\* self.tables[table_name].append(record): the list the table is at that moment.
insert_append(th) ==
    /\ requests[th].pc = "append"
    /\ heap' = Append(heap, requests[th].record)
    /\ tables' = [tables EXCEPT ![requests[th].t] = Append(@, Len(heap) + 1)]
    /\ requests' = [requests EXCEPT ![th].pc = "save"]
    /\ hist' = Touch(requests[th].t, "other")
    /\ UNCHANGED <<schemas, _transactions, files, held, last, engine, raw>>

\* self._save(table_name), the last statement of insert and of delete: the file
\* gets the rows the table has at that moment.
request_save(th) ==
    /\ requests[th].pc = "save"
    /\ files' = _save(files, heap, tables, schemas, requests[th].t)
    /\ requests' = [requests EXCEPT ![th].pc = "done"]
    /\ last' = Returned(requests[th].op, requests[th].t)
    /\ UNCHANGED <<tables, schemas, _transactions, heap, held, hist, engine, raw>>

\* DELETE /delete/<table_name>, up to the end of the list comprehension of
\* db.delete: the new list is built, not yet stored.
delete_filter(th, table_name, conditions) ==
    /\ requests[th].pc = "new"
    /\ IF table_name \notin DOMAIN tables
       THEN /\ requests' = [requests EXCEPT ![th] =
                               Received("delete", table_name, EmptyDict, conditions, "done", <<>>)]
            /\ last' = Call("delete", table_name, "NotFound", -1, <<>>, NoTx)
       ELSE /\ requests' = [requests EXCEPT ![th] =
                               Received("delete", table_name, EmptyDict, conditions, "store",
                                        SelectSeq(tables[table_name],
                                                  LAMBDA r : ~matches(heap[r], conditions)))]
            /\ UNCHANGED last
    /\ UNCHANGED <<tables, schemas, _transactions, files, heap, held, hist, engine, raw>>

\* self.tables[table_name] = [...]: the list built by the comprehension replaces
\* the list of the table, whatever was appended to that one in between.
delete_store(th) ==
    /\ requests[th].pc = "store"
    /\ LET N == CompactKept(heap, [tables EXCEPT ![requests[th].t] = requests[th].kept],
                            _transactions, held,
                            [requests EXCEPT ![th].pc = "save", ![th].kept = <<>>])
       IN /\ Engine(N)
          /\ requests' = N.requests
    /\ hist' = Touch(requests[th].t, "other")
    /\ UNCHANGED <<schemas, files, last, engine, raw>>

\* What the clients of the API send.
ApiRecords == { [id |-> IntV(1)], [id |-> IntV(2)] }
ApiConditions == { EmptyDict, [id |-> IntV(2)] }

\* Requests served one after the other set the table up; then each thread serves
\* one request, insert or delete, the statements of the two in any order.
NextApi ==
    \/ \E t \in {"users"} :
          \/ Quiet /\ create_table(t, EmptyDict)
          \/ Quiet /\ \E record \in ApiRecords : insert(t, record, "")
          \/ \E th \in Threads, record \in ApiRecords : insert_check(th, t, record)
          \/ \E th \in Threads, conditions \in ApiConditions : delete_filter(th, t, conditions)
    \/ \E th \in Threads :
          \/ insert_append(th)
          \/ delete_store(th)
          \/ request_save(th)

SpecApi == InitApi /\ [][NextApi]_vars

\* What the client of SpecExport passes: records without and with the column v,
\* and the file it exports to.
ExportRecords == { [id |-> IntV(1)], [id |-> IntV(2), v |-> StrV("x")] }
ExportConditions == { [id |-> IntV(1)] }
ExportPaths == { <<"export", "users", ".csv">> }

\* One client that fills a table, backs it up and exports it, on either engine.
NextExport ==
    \E t \in {"users"} :
        \/ create_table(t, EmptyDict)
        \/ load_table(t)
        \/ drop_table(t)
        \/ \E record \in ExportRecords : insert(t, record, "")
        \/ \E conditions \in ExportConditions : delete(t, conditions)
        \/ \E now \in Timestamps : backup_table(t, now)
        \/ \E file_path \in ExportPaths : export_csv(t, file_path)

SpecExport == InitEngines /\ [][NextExport]_vars

\* What the client of SpecTx passes.
TxRecords == { [id |-> IntV(1)] }
TxConditions == { EmptyDict }
TxUpdates == { [v |-> StrV("x")] }

\* One client that works in transactions, backs its table up and exports it.
NextTx ==
    \E t \in {"users"} :
        \/ create_table(t, EmptyDict)
        \/ drop_table(t)
        \/ \E record \in TxRecords : insert(t, record, "")
        \/ \E conditions \in TxConditions : select(t, conditions)
        \/ \E conditions \in TxConditions, updates \in TxUpdates :
              update(t, conditions, updates)
        \/ \E conditions \in TxConditions : delete(t, conditions)
        \/ begin_transaction(t)
        \/ rollback(t)
        \/ commit(t)
        \/ \E now \in Timestamps : backup_table(t, now)
        \/ \E file_path \in ExportPaths : export_csv(t, file_path)

\* MDB.__init__ with an empty data folder.
InitTx == Init /\ files = [p \in {} |-> EmptyFile]

SpecTx == InitTx /\ [][NextTx]_vars

\* db.insert(table_name, held[i], key_column): the client inserts a dict it
\* kept from an earlier insert or select; the table appends that very dict.
insert_held(table_name, i, key_column) ==
    /\ i \in 1..Len(held)
    /\ IF insert_error(table_name, heap[held[i]], key_column) # "OK"
       THEN Raised("insert", table_name, insert_error(table_name, heap[held[i]], key_column))
       ELSE /\ Len(tables[table_name]) < MaxRows
            /\ LET N == Compact(heap, [tables EXCEPT ![table_name] = Append(@, held[i])],
                                _transactions, held)
               IN /\ Engine(N)
                  /\ files' = _save(files, N.heap, N.tables, schemas, table_name)
            /\ hist' = Touch(table_name, "other")
            /\ last' = Returned("insert", table_name)
            /\ UNCHANGED <<schemas, engine, requests, raw>>

\* What the client of SpecTables passes.
TablesRecords == { [id |-> IntV(1)] }
TablesConditions == { EmptyDict }
TablesUpdates == { [v |-> StrV("x")] }

\* One client working on two tables, which may insert into one table a record
\* it has inserted into, or selected from, the other.
NextTables ==
    \E t \in Names :
        \/ create_table(t, EmptyDict)
        \/ drop_table(t)
        \/ \E record \in TablesRecords : insert_kept(t, record, "")
        \/ insert_held(t, 1, "")
        \/ \E conditions \in TablesConditions, updates \in TablesUpdates :
              update(t, conditions, updates)
        \/ \E conditions \in TablesConditions : delete(t, conditions)

SpecTables == InitTx /\ [][NextTables]_vars

\* MDB.__init__ of either class, in a data folder where an earlier run has left
\* the file of table users.
InitPersisted ==
    /\ tables = [t \in {} |-> <<>>]
    /\ schemas = [t \in {} |-> EmptyDict]
    /\ _transactions = [t \in {} |-> <<>>]
    /\ files = (_path("users") :> ListDoc(dump_rows(LegacyRows)))
    /\ heap = <<>>
    /\ held = <<>>
    /\ hist = [t \in {} |-> [rows |-> <<>>, re |-> FALSE, m |-> "none"]]
    /\ last = Returned("__init__", "")
    /\ engine \in {"gui", "terminal"}
    /\ raw = NoRaw
    /\ requests = NoRequests

\* One client that creates or loads the table and works on it; it drops nothing,
\* so the file of the table is there all along.
NextPersisted ==
    \E t \in {"users"} :
        \/ \E schema \in SpecSchemas : create_table(t, schema)
        \/ load_table(t)
        \/ \E record \in Records : insert(t, record, "")
        \/ \E conditions \in Conditions : delete(t, conditions)
        \/ begin_transaction(t)
        \/ rollback(t)
        \/ commit(t)

SpecPersisted == InitPersisted /\ [][NextPersisted]_vars

\* What the client of SpecKeyed passes: it creates a table without schema, or
\* with one that asks for column v only, and inserts records without id and with
\* ids that are equal for == (1 == True).
KeyedSchemas == { EmptyDict, [v |-> "None"] }
KeyedRecords == { [v |-> None], [id |-> IntV(1), v |-> None], [id |-> BoolV(TRUE), v |-> None] }
KeyedConditions == { EmptyDict, [id |-> IntV(1)] }

\* The key column the client passes to insert: id on every insert into a table
\* it created with a schema, none on a table it created without.
key_for(t) == IF t \in DOMAIN schemas THEN "id" ELSE ""

\* One client that creates and drops a table, inserts with the key column of the
\* table, deletes, and works in transactions.
NextKeyed ==
    \E t \in {"users"} :
        \/ \E schema \in KeyedSchemas : create_table(t, schema)
        \/ drop_table(t)
        \/ \E record \in KeyedRecords : insert(t, record, key_for(t))
        \/ \E conditions \in KeyedConditions : delete(t, conditions)
        \/ begin_transaction(t)
        \/ rollback(t)
        \/ commit(t)

SpecKeyed == InitTx /\ [][NextKeyed]_vars

\* ------------------------------------------------------------------ reading the state

\* The error kinds of the specification.
SchemaViolation == {"MissingColumn", "KindMismatch"}

\* Table t has a pending snapshot.
Active(t) == t \in DOMAIN _transactions

\* The call that has just returned was op on t and raised nothing.
Did(op, t) == last'.op = op /\ last'.t = t /\ last'.err = "OK"

\* The rows the file of t holds, read back.
FileRows(t) == load_rows(files[_path(t)].rows)

\* ------------------------------------------------------------------ claims

\* C1: on a table with a pending snapshot, rollback leaves the in-memory rows
\* equal (length, order, column values) to the rows at the moment of the begin
\* that took the snapshot, whatever inserts, updates and deletes followed it;
\* in-place updates of rows do not reach the snapshot.
C1_RollbackRestoresRowsAtBegin ==
    [][\A t \in Names :
          (Active(t) /\ Did("rollback", t))
          => /\ t \in DOMAIN tables'
             /\ Rows(heap', tables'[t]) = hist[t].rows
             /\ Rows(heap, _transactions[t]) = hist[t].rows]_vars

\* C1 witness: a rollback has undone a transaction in which an update changed
\* rows in place, and the table holds rows again.
C1_Witness ==
    /\ last.op = "rollback" /\ last.tx.active /\ last.tx.m = "update"
    /\ last.t \in DOMAIN tables /\ tables[last.t] # <<>>

\* C2: drop discards the pending snapshot of the table, so that a rollback
\* called on the dropped table finds no snapshot, changes nothing and leaves the
\* name absent from the registry.
C2_DropDiscardsSnapshot ==
    [][\A t \in Names :
          (t \notin DOMAIN tables /\ last'.op = "rollback" /\ last'.t = t)
          => /\ ~Active(t)
             /\ t \notin DOMAIN tables'
             /\ UNCHANGED <<tables, schemas, _transactions, files, heap>>]_vars

\* C3: a load of the file the write path produces for a live table gives back the
\* schema and the rows the engine held before the write.
C3_RoundTrip ==
    [][\A t \in Names :
          (/\ t \in DOMAIN tables
           /\ _path(t) \in DOMAIN files
           /\ files[_path(t)] = _save(files, heap, tables, schemas, t)[_path(t)]
           /\ Did("load_table", t))
          => /\ Rows(heap', tables'[t]) = TableRows(t)
             /\ schema_of(schemas', t) = schema_of(schemas, t)]_vars

\* A row conforms to a schema: every declared column is present, and every value
\* that is not None has the declared kind, columns of kind Any ("None") excepted.
Conforms(schema, row) ==
    \A col \in DOMAIN schema :
        /\ col \in DOMAIN row
        /\ (row[col] = None \/ schema[col] = "None" \/ row[col].kind = schema[col])

\* C4: in every state inserts, updates, deletes and transactions reach, every
\* row of a live table with a bound schema conforms to the schema.
C4_SchemaConformance ==
    \A t \in DOMAIN tables \cap DOMAIN schemas :
        \A i \in 1..Len(tables[t]) : Conforms(schemas[t], heap[tables[t][i]])

\* C5: when a call that created a table or changed the rows of a live table
\* returns, the rows in the table's file equal the rows in memory.
C5_WriteThrough ==
    [][\A t \in Names :
          (/\ t \in DOMAIN tables'
           /\ \/ Did("create_table", t)
              \/ t \in DOMAIN tables /\ Rows(heap', tables'[t]) # TableRows(t))
          => /\ _path(t) \in DOMAIN files'
             /\ load_rows(files'[_path(t)].rows) = Rows(heap', tables'[t])]_vars

\* A value of the wrong kind for a column: a bool anywhere but in a Boolean or
\* Any column, an int in a Float column.
WrongKind(dtype, x) ==
    \/ x.kind = "bool" /\ dtype \notin {"bool", "None"}
    \/ x.kind = "int" /\ dtype = "float"

\* C6: an insert of a record that holds a Boolean in an Integer column (or in
\* any column that is neither Boolean nor Any), or an Integer in a Float column,
\* fails with SchemaViolation and appends nothing.
C6_ExactKinds ==
    [][\A t \in Names, record \in SchemaRecords, key_column \in KeyColumns :
          (/\ t \in DOMAIN tables \cap DOMAIN schemas
           /\ \E col \in DOMAIN schemas[t] \cap DOMAIN record :
                 WrongKind(schemas[t][col], record[col])
           /\ insert(t, record, key_column))
          => /\ last'.err \in SchemaViolation
             /\ UNCHANGED <<tables, heap, files>>]_vars

\* The records of the claims about insert: every record over the columns and
\* one value of each kind.
AnyValues == { None, IntV(1), FloatV(2), StrV("x"), BoolV(TRUE) }
AnyRecords == UNION { [cols -> AnyValues] : cols \in SUBSET {"id", "v"} }

\* C7: on a table with a bound schema, an insert of a record that lacks a
\* declared column fails with SchemaViolation whatever its other values are
\* (for every record over the columns), and the failing inserts of the client
\* leave the rows in memory, the pending snapshot and the file as they were.
C7_MissingColumnRejected ==
    /\ [](\A t \in Names, record \in AnyRecords, key_column \in {"", "id", "v"} :
            (/\ t \in DOMAIN schemas
             /\ \E col \in DOMAIN schemas[t] : col \notin DOMAIN record)
            => insert_error(t, record, key_column) \in SchemaViolation)
    /\ [][\A t \in Names, record \in Records, key_column \in SpecKeyColumns :
            (/\ last'.op = "insert"
             /\ t \in DOMAIN schemas
             /\ \E col \in DOMAIN schemas[t] : col \notin DOMAIN record
             /\ insert(t, record, key_column))
            => UNCHANGED <<tables, schemas, _transactions, files, heap>>]_vars

\* C7 witness: an insert has failed on a missing column, on a table that holds
\* rows and has a pending snapshot.
C7_Witness ==
    /\ last.op = "insert" /\ last.err = "MissingColumn"
    /\ last.t \in DOMAIN tables /\ tables[last.t] # <<>>
    /\ Active(last.t)

\* Some existing row's value for column k equals the record's value for k (==
\* of the engine, a missing column reading as None).
KeyTaken(t, record, k) ==
    \E i \in 1..Len(tables[t]) : PyEq(get(heap[tables[t][i]], k), get(record, k))

\* An insert with key column k fails with DuplicateKey exactly when the key is
\* taken.
KeyedError(t, record, k) ==
    insert_error(t, record, k) = "DuplicateKey" <=> KeyTaken(t, record, k)

\* A step that is an insert with key column k: with the key taken it fails with
\* DuplicateKey and leaves rows and file alone, otherwise it appends the record
\* as the last row.
KeyedStep(t, record, k) ==
    (last'.op = "insert" /\ insert(t, record, k))
    => IF KeyTaken(t, record, k)
       THEN last'.err = "DuplicateKey" /\ UNCHANGED <<tables, heap, files>>
       ELSE /\ last'.err = "OK"
            /\ Rows(heap', tables'[t]) = Append(TableRows(t), record)

\* C8 as stated: on a live table, an insert with key column k fails with
\* DuplicateKey exactly when some existing row's value for k equals the record's
\* (for every record over the columns); for the records the client passes, the
\* failed insert leaves rows and file unchanged; an insert whose key is not
\* taken succeeds and appends the record as the last row.
C8_DuplicateKeyExactly ==
    /\ [](\A t \in Names, record \in AnyRecords, k \in {"id", "v"} :
            t \in DOMAIN tables => KeyedError(t, record, k))
    /\ [][\A t \in Names, record \in Records, k \in {"id", "v"} :
            t \in DOMAIN tables => KeyedStep(t, record, k)]_vars

\* The record passes the validation of insert against the schema of table t.
Valid(t, record) == _validate_record(schemas, t, record) = "OK"

\* C8 as amended: the same, for a record that passes the validation against the
\* table's schema (validation comes first and raises SchemaViolation).
C8_DuplicateKeyAfterValidation ==
    /\ [](\A t \in Names, record \in AnyRecords, k \in {"id", "v"} :
            (t \in DOMAIN tables /\ Valid(t, record)) => KeyedError(t, record, k))
    /\ [][\A t \in Names, record \in Records, k \in {"id", "v"} :
            (t \in DOMAIN tables /\ Valid(t, record)) => KeyedStep(t, record, k)]_vars

\* C8 witness: an insert with a key column has failed on a duplicate key.
C8_Witness ==
    /\ last.op = "insert" /\ last.err = "DuplicateKey"
    /\ last.t \in DOMAIN tables /\ tables[last.t] # <<>>

\* C9: a begin on a table stores a snapshot equal to the rows of that moment,
\* replacing the snapshot of a transaction already pending; a rollback restores
\* the rows of the latest begin (mutations before it kept, those after it
\* undone) and leaves no snapshot, so that a further rollback changes nothing.
C9_SecondBeginReplaces ==
    [][\A t \in Names :
          /\ Did("begin_transaction", t)
             => /\ Active(t)'
                /\ Rows(heap', _transactions'[t]) = TableRows(t)
          /\ (Active(t) /\ hist[t].re /\ Did("rollback", t))
             => /\ Rows(heap', tables'[t]) = hist[t].rows
                /\ ~Active(t)'
          /\ (~Active(t) /\ Did("rollback", t))
             => UNCHANGED <<tables, schemas, _transactions, files, heap>>]_vars

\* C9 witness: a rollback has ended a transaction whose begin replaced the
\* snapshot of an earlier begin after mutations, and which mutations followed.
C9_Witness ==
    /\ last.op = "rollback" /\ last.tx.active
    /\ last.tx.re /\ last.tx.m # "none"

\* C10: a commit on a table with a pending snapshot discards the snapshot,
\* keeps the rows in memory and writes them to the file; a rollback after it
\* changes nothing.
C10_CommitPersists ==
    [][\A t \in Names :
          /\ (Active(t) /\ last'.op = "commit" /\ last'.t = t)
             => /\ last'.err = "OK"
                /\ ~Active(t)'
                /\ t \in DOMAIN tables /\ t \in DOMAIN tables'
                /\ Rows(heap', tables'[t]) = TableRows(t)
                /\ _path(t) \in DOMAIN files'
                /\ load_rows(files'[_path(t)].rows) = Rows(heap', tables'[t])
          /\ (last.op = "commit" /\ last.t = t /\ Did("rollback", t))
             => UNCHANGED <<tables, schemas, _transactions, files, heap>>]_vars

\* C11: a rollback or a commit on a table without a pending snapshot raises
\* nothing and leaves the live tables, their rows and schemas, the snapshots of
\* the other tables and every file as they were.
C11_IdleEndIsNoOp ==
    [][\A t \in Names :
          (~Active(t) /\ last'.op \in {"rollback", "commit"} /\ last'.t = t)
          => /\ last'.err = "OK"
             /\ UNCHANGED <<tables, schemas, _transactions, files, heap, raw>>]_vars

\* C11 witness: a rollback has found no pending snapshot, on a live table that
\* holds rows.
C11_Witness ==
    /\ last.op = "rollback" /\ last.err = "OK" /\ ~last.tx.active
    /\ last.t \in DOMAIN tables /\ tables[last.t] # <<>>

\* Row r has, for every column of the conditions, a value equal to the given
\* one (== of the engine; a column the row lacks can only equal None).
Holds(r, conditions) ==
    \A k \in DOMAIN conditions :
        IF k \in DOMAIN r THEN PyEq(r[k], conditions[k]) ELSE conditions[k] = None

\* C12: select returns the rows for which every condition holds, in table
\* order (all rows when there are no conditions), and changes neither rows,
\* schemas, snapshots nor files.
C12_SelectFilters ==
    [][\A t \in Names, conditions \in Conditions :
          (/\ last'.op = "select"
           /\ t \in DOMAIN tables
           /\ select(t, conditions))
          => /\ last'.err = "OK"
             /\ last'.result = SelectSeq(TableRows(t), LAMBDA r : Holds(r, conditions))
             /\ UNCHANGED <<tables, schemas, _transactions, files, heap>>]_vars

\* C12 witness: a select with conditions has returned some of the rows of a
\* table and left others out.
C12_Witness ==
    /\ last.op = "select" /\ last.err = "OK"
    /\ last.t \in DOMAIN tables
    /\ last.result # <<>>
    /\ Len(last.result) < Len(tables[last.t])

\* Table t is live and its value is a list of rows.
Listed(t) == t \in DOMAIN tables /\ t \notin DOMAIN raw.tables

\* How many rows the conditions hold for.
Matching(rows, conditions) ==
    Cardinality({i \in 1..Len(rows) : Holds(rows[i], conditions)})

\* C13: update returns the number of rows the conditions hold for; in each of
\* them every column of the updates has its given value and the other columns
\* are kept; the other rows, the order and the number of rows are unchanged
\* (with no matching row it returns 0 and changes no row).
C13_UpdateCounts ==
    [][\A t \in Names, conditions \in EngineConditions, updates \in EngineUpdates :
          (/\ last'.op = "update"
           /\ Listed(t)
           /\ update(t, conditions, updates))
          => /\ last'.err = "OK"
             /\ last'.count = Matching(TableRows(t), conditions)
             /\ Rows(heap', tables'[t])
                = [i \in 1..Len(tables[t]) |->
                     IF Holds(TableRows(t)[i], conditions)
                     THEN updates @@ TableRows(t)[i]
                     ELSE TableRows(t)[i]]]_vars

\* C14: delete removes the rows select would return for the same conditions,
\* returns how many it removed, and leaves the other rows as they were and in
\* their order.
C14_DeleteCounts ==
    [][\A t \in Names, conditions \in EngineConditions :
          (/\ last'.op = "delete"
           /\ Listed(t)
           /\ delete(t, conditions))
          => /\ last'.err = "OK"
             /\ last'.count = Matching(TableRows(t), conditions)
             /\ Rows(heap', tables'[t])
                = SelectSeq(TableRows(t), LAMBDA r : ~Holds(r, conditions))
             /\ Len(tables'[t]) = Len(tables[t]) - last'.count]_vars

\* C15: create on a live table fails with AlreadyExists and leaves the
\* table's rows, schema, snapshot and file as they were; on a name that is not
\* live it makes the table live without rows, binds the schema given and has
\* written the file when it returns.
C15_CreateOnce ==
    [][\A t \in Names, schema \in SpecSchemas :
          (last'.op = "create_table" /\ create_table(t, schema))
          => IF t \in DOMAIN tables
             THEN /\ last'.err = "AlreadyExists"
                  /\ UNCHANGED <<tables, schemas, _transactions, files, heap>>
             ELSE /\ last'.err = "OK"
                  /\ t \in DOMAIN tables' /\ tables'[t] = <<>>
                  /\ schema_of(schemas', t) = schema
                  /\ _path(t) \in DOMAIN files'
                  /\ load_rows(files'[_path(t)].rows) = <<>>
                  /\ load_schema(files'[_path(t)].schema) = schema]_vars

\* C15 witness: a create has failed on a live table that holds rows and has a
\* pending snapshot.
C15_Witness ==
    /\ last.op = "create_table" /\ last.err = "AlreadyExists"
    /\ last.t \in DOMAIN tables /\ tables[last.t] # <<>>
    /\ Active(last.t)

\* The operations that ask for a live table.
NeedLive == {"insert", "select", "update", "delete", "begin_transaction", "drop_table"}

\* C16: drop fails with NotFound on a name that is not live; otherwise it takes
\* the name and its schema out of the registry and deletes the file; from then
\* on the operations on the name fail with NotFound and change nothing, and the
\* name becomes live again by create or load only.
C16_DroppedUntilCreated ==
    [][\A t \in Names :
          /\ Did("drop_table", t)
             => /\ t \in DOMAIN tables
                /\ t \notin DOMAIN tables' /\ t \notin DOMAIN schemas'
                /\ _path(t) \notin DOMAIN files'
          /\ (t \notin DOMAIN tables /\ last'.op \in NeedLive /\ last'.t = t)
             => /\ last'.err = "NotFound"
                /\ UNCHANGED <<tables, schemas, _transactions, files, heap>>
          /\ (t \notin DOMAIN tables /\ t \in DOMAIN tables')
             => last'.op \in {"create_table", "load_table"}]_vars

\* C17: load fails with NotFound when the table has no file and with
\* UnsupportedFormat when the top-level value of the file is neither a list nor
\* an object; a load that fails in one of these ways creates no file and leaves
\* the registry, rows, schemas and snapshots as they were.
C17_LoadFailures ==
    [][\A t \in Names :
          (last'.op = "load_table" /\ last'.t = t)
          => /\ _path(t) \notin DOMAIN files => last'.err = "NotFound"
             /\ (_path(t) \in DOMAIN files /\ files[_path(t)].shape = "scalar")
                => last'.err = "UnsupportedFormat"
             /\ last'.err \in {"NotFound", "UnsupportedFormat"}
                => UNCHANGED <<tables, schemas, _transactions, files, heap, raw>>]_vars

\* The kind inferred for a value: its own when it is an Integer, a Float or a
\* Text, Any ("None") for a Boolean, a null and everything else.
InferredKind(x) == IF x.kind \in {"int", "float", "str"} THEN x.kind ELSE "None"

\* C18: a load of a file that is a bare list of records makes the rows of the
\* table equal to the list and binds the schema inferred from the first record,
\* column by column (gui engine, the one that infers).
C18_LegacyInference ==
    [][\A t \in Names :
          (/\ engine = "gui"
           /\ _path(t) \in DOMAIN files
           /\ files[_path(t)].shape = "list"
           /\ last'.op = "load_table" /\ last'.t = t)
          => LET list == load_rows(files[_path(t)].rows)
             IN /\ last'.err = "OK"
                /\ t \in DOMAIN tables' /\ Rows(heap', tables'[t]) = list
                /\ t \in DOMAIN schemas'
                /\ list # <<>>
                   => schemas'[t] = [c \in DOMAIN list[1] |-> InferredKind(list[1][c])]]_vars

\* The operations that write the file of the table they worked on.
Writers == {"create_table", "insert", "update", "delete", "commit"}

\* C19: when a create, insert, update, delete or commit has returned, the file
\* of the table is an object with a schema field (a kind name or null for each
\* column of the schema) and a rows field holding the rows of the table, never
\* a bare list.
C19_CurrentShapeWritten ==
    [][\A t \in Names :
          (/\ last'.op \in Writers /\ last'.t = t /\ last'.err = "OK"
           /\ t \in DOMAIN tables' /\ t \notin DOMAIN raw'.tables
           /\ last'.op = "commit" => last'.tx.active)
          => /\ _path(t) \in DOMAIN files'
             /\ files'[_path(t)].shape = "object"
             /\ DOMAIN files'[_path(t)].schema = DOMAIN schema_of(schemas', t)
             /\ \A c \in DOMAIN files'[_path(t)].schema :
                   files'[_path(t)].schema[c].tok \in {"string", "null"}
             /\ load_rows(files'[_path(t)].rows) = Rows(heap', tables'[t])]_vars

\* C20: a client changing a column of a record it got from select, or of a
\* record it passed to insert, does not change the rows of any table.
C20_NoSharedRows ==
    [][last'.op = "client_set"
       => \A t \in DOMAIN tables :
             t \in DOMAIN tables' /\ Rows(heap', tables'[t]) = TableRows(t)]_vars


\* The rows a request leaves when it is served alone on a live table without
\* schema: insert appends its record, delete drops the rows its conditions hold for.
Served(rows, rq) ==
    IF rq.op = "insert" THEN Append(rows, rq.record)
    ELSE SelectSeq(rows, LAMBDA r : ~Holds(r, rq.conditions))

\* C21: two requests served concurrently on one table through the shared engine
\* do not interleave their read-modify-write of the rows and their file write:
\* once both are done, the rows and the file are those of one of the two serial
\* orders (an insert is never lost to a delete whose conditions it does not match).
C21_RequestsSerialize ==
    \A a, b \in Threads :
        (/\ a # b
         /\ requests[a].pc = "done" /\ requests[b].pc = "done"
         /\ requests[a].first
         /\ requests[a].t \in DOMAIN tables /\ requests[b].t = requests[a].t)
        => \E order \in {<<a, b>>, <<b, a>>} :
              LET rows == Served(Served(requests[a].base, requests[order[1]]),
                                 requests[order[2]])
              IN /\ TableRows(requests[a].t) = rows
                 /\ FileRows(requests[a].t) = rows


\* C22: exportCsv writes nothing for a table without rows; for a table with rows
\* it succeeds and writes the header of the first row's columns and one line per
\* row in table order, a column the row lacks left empty, whatever columns the
\* later rows carry; it changes neither rows, schema, snapshot nor table file.
C22_ExportEveryRow ==
    [][\A t \in Names, file_path \in ExportPaths :
          (last'.op = "export_csv" /\ last'.t = t /\ Listed(t))
          => /\ Rows(heap', tables'[t]) = TableRows(t)
             /\ schemas' = schemas
             /\ DOMAIN _transactions' = DOMAIN _transactions
             /\ \A u \in DOMAIN _transactions :
                   Rows(heap', _transactions'[u]) = Rows(heap, _transactions[u])
             /\ \A p \in DOMAIN files :
                   p # file_path => p \in DOMAIN files' /\ files'[p] = files[p]
             /\ IF TableRows(t) = <<>>
                THEN last'.err = "OK" /\ files' = files
                ELSE LET fieldnames == DOMAIN TableRows(t)[1]
                     IN /\ last'.err = "OK"
                        /\ files'[file_path] =
                              CsvDoc(<<writeheader(fieldnames)>>
                                     \o [i \in 1..Len(tables[t]) |->
                                           _dict_to_list(fieldnames, TableRows(t)[i])])]_vars


\* The rows of the snapshot of t, as values.
Snapshot(t) == Rows(heap, _transactions[t])

\* The operations that leave the transaction state of every table alone.
NoTxOps == {"insert", "select", "update", "delete", "backup_table", "export_csv"}

\* C23: a table is Active exactly while a snapshot of it is stored, and its
\* state moves only Idle -> Active and Active -> Active on begin, Active -> Idle
\* on commit or rollback; begin on a name that is not live fails with NotFound
\* and stores no snapshot; insert, select, update, delete, backup and exportCsv
\* change neither which tables are Active nor the content of a snapshot.
C23_TransactionStates ==
    [][\A t \in Names :
          /\ (~Active(t) /\ Active(t)') => Did("begin_transaction", t)
          /\ (Active(t) /\ ~Active(t)') => last'.t = t /\ last'.op \in {"commit", "rollback"}
          /\ Did("begin_transaction", t) => Active(t)'
          /\ (Active(t) /\ last'.t = t /\ last'.op \in {"commit", "rollback"}) => ~Active(t)'
          /\ (last'.op = "begin_transaction" /\ last'.t = t /\ t \notin DOMAIN tables)
             => /\ last'.err = "NotFound"
                /\ DOMAIN _transactions' = DOMAIN _transactions
                /\ \A u \in DOMAIN _transactions :
                      Rows(heap', _transactions'[u]) = Snapshot(u)
          /\ (last'.op \in NoTxOps /\ last'.t = t)
             => /\ DOMAIN _transactions' = DOMAIN _transactions
                /\ \A u \in DOMAIN _transactions :
                      Rows(heap', _transactions'[u]) = Snapshot(u)]_vars

\* An update has just changed rows of a table with a pending snapshot, and the
\* snapshot still has the rows as they were.
C23_Witness ==
    /\ last.op = "update" /\ last.err = "OK" /\ last.count > 0
    /\ Active(last.t)
    /\ Snapshot(last.t) # TableRows(last.t)
    /\ Len(Snapshot(last.t)) = Len(tables[last.t])


\* The operations of the engine on a table.
TableOps ==
    {"create_table", "load_table", "drop_table", "insert", "update", "delete",
     "begin_transaction", "rollback", "commit", "backup_table", "export_csv"}

\* The step leaves table u as it is: live or not, its rows, its schema, its
\* pending snapshot and its file.
Untouched(u) ==
    /\ (u \in DOMAIN tables') = (u \in DOMAIN tables)
    /\ u \in DOMAIN tables => Rows(heap', tables'[u]) = TableRows(u)
    /\ (u \in DOMAIN schemas') = (u \in DOMAIN schemas)
    /\ u \in DOMAIN schemas => schemas'[u] = schemas[u]
    /\ Active(u)' = Active(u)
    /\ Active(u) => Rows(heap', _transactions'[u]) = Snapshot(u)
    /\ (_path(u) \in DOMAIN files') = (_path(u) \in DOMAIN files)
    /\ _path(u) \in DOMAIN files => files'[_path(u)] = files[_path(u)]

\* C24: operations are table-local: an operation on table A, whether it succeeds
\* or fails, leaves unchanged whether any other table B is live, and the rows,
\* the schema, the pending snapshot and the file of B.
C24_TableLocal ==
    [][\A A, B \in Names :
          (A # B /\ last'.t = A /\ last'.op \in TableOps) => Untouched(B)]_vars


\* C25: create looks at the registry only: on a name that is not live while its
\* file exists, it succeeds and rewrites the file with zero rows, so that a load
\* that follows returns no rows.
C25_CreateOverwritesFile ==
    [][\A t \in Names :
          /\ (/\ last'.op = "create_table" /\ last'.t = t
              /\ t \notin DOMAIN tables /\ _path(t) \in DOMAIN files)
             => /\ last'.err = "OK"
                /\ t \in DOMAIN tables' /\ tables'[t] = <<>>
                /\ files'[_path(t)].shape \in {"object", "list"}
                /\ files'[_path(t)].rows = <<>>
          /\ (/\ last.op = "create_table" /\ last.t = t /\ last.err = "OK"
              /\ last'.op = "load_table" /\ last'.t = t)
             => /\ last'.err = "OK"
                /\ t \in DOMAIN tables' /\ t \notin DOMAIN raw'.tables
                /\ tables'[t] = <<>>]_vars

\* A create has just succeeded (in SpecPersisted the file of the table was
\* there, with a row in it) and the file has no row any more.
C25_Witness ==
    /\ last.op = "create_table" /\ last.err = "OK"
    /\ last.t \in DOMAIN tables
    /\ _path(last.t) \in DOMAIN files
    /\ files[_path(last.t)].rows = <<>>


\* No two of the rows have equal values for column k (== of the engine, a row
\* without the column reading as None).
Unique(rows, k) ==
    \A i, j \in 1..Len(rows) : i # j => ~PyEq(get(rows[i], k), get(rows[j], k))

\* C26: in a table created empty whose rows are changed only by inserts that all
\* supply the same key column k, by delete and by begin, rollback and commit, no
\* two rows ever have equal values for k (in SpecKeyed these are the tables with
\* a schema: k is id).
C26_KeyUnique ==
    \A t \in Names :
        (t \in DOMAIN tables /\ t \in DOMAIN schemas) => Unique(TableRows(t), "id")

====
